---- MODULE Spec2Model ----
(***************************************************************************)
(* The configuration view of the extension: getInitialValues (hydrate),    *)
(* getSettings (trim) and validationSchema (validate) of                   *)
(* src/view/configuration/configuration.jsx, driven by the host (open the  *)
(* view, validate, save, open again) and by the user (add, remove, edit).  *)
(*                                                                         *)
(* JavaScript values.  An object is a function whose DOMAIN is the set of  *)
(* keys that are defined on it (instance[key] === undefined is             *)
(* key \notin DOMAIN instance).  Booleans are BOOLEAN, arrays are          *)
(* sequences.  The instance name and the idSyncContainerId text are        *)
(* sequences of one-character strings, because the code inspects their     *)
(* characters; the other texts are only compared and are strings.          *)
(* idSyncContainerId holds a string or a number, so it is tagged:          *)
(* Str(chars) or Num(m, e), the number m * 10^-e.                          *)
(***************************************************************************)
EXTENDS Integers, Sequences, FiniteSets, TLC

VARIABLES
    initInfo,     \* what the host passes to the view: company.orgId, settings
    values,       \* the form's working values: [instances |-> <<...>>]
    sameArray,    \* values.instances is the very array initInfo.settings.instances
    errors,       \* the result of the last validation: a set of (path, message)
    saved,        \* what getSettings returned to the host
    prevSaved,    \* what it returned in the session before
    pc,           \* "start" (view opened), "editing", "saved"
    session,      \* the sessions opened so far
    fixRounds,    \* per unique key: the fix-and-revalidate rounds made in a row
    settings,     \* the settings of the setCustomerIds execution under way or last made
    calls,        \* the operations invoked on instances, in order
    logged,       \* the errors logged through turbine.logger, in order
    raised        \* the last setCustomerIds execution threw

\* The state of the configuration view and that of the library at run time.
viewVars == <<initInfo, values, sameArray, errors, saved, prevSaved, pc, session, fixRounds>>

libVars == <<settings, calls, logged, raised>>

vars == <<viewVars, libVars>>

(***************************************************************************)
(* Bounds.                                                                 *)
(***************************************************************************)
MaxStored == 2      \* stored instances in the settings the host passes
MaxSessions == 2    \* open/save sessions in a row
MaxInstances == 3   \* instances in an editing session
MaxLen == 5         \* characters typed into the container ID or the name field
MaxIds == 2         \* entries of the customerIds of a setCustomerIds execution
MaxCalls == 2       \* instance operations and logged errors of the library

(***************************************************************************)
(* Values.                                                                 *)
(***************************************************************************)
Str(chars) == [type |-> "string", chars |-> chars, m |-> 0, e |-> 0]

Num(m, e) == [type |-> "number", chars |-> <<>>, m |-> m, e |-> e]

\* An absent value (undefined): initInfo.settings of a new configuration.
Undefined == [undefined |-> TRUE]

\* obj with the keys of upd set to upd's values.
Assign(obj, upd) ==
    [k \in DOMAIN obj \cup DOMAIN upd |-> IF k \in DOMAIN upd THEN upd[k] ELSE obj[k]]

contextGranularityEnum == [ALL |-> "all", SPECIFIC |-> "specific"]

contextOptions == <<"web", "device", "environment", "placeContext">>

DefaultName == <<"a", "l", "l", "o", "y">>

getInstanceDefaults(info) ==
    [name |-> DefaultName,
     propertyId |-> "",
     imsOrgId |-> info.company.orgId,
     edgeDomain |-> "alpha.konductor.adobedc.net",
     errorsEnabled |-> TRUE,
     optInEnabled |-> FALSE,
     idSyncEnabled |-> TRUE,
     idSyncContainerId |-> Str(<<>>),
     destinationsEnabled |-> TRUE,
     prehidingStyle |-> "",
     contextGranularity |-> contextGranularityEnum.ALL,
     context |-> contextOptions]

\* JSON.parse(JSON.stringify(defaults)): a new object with every key whose value
\* JSON can carry; every default is a string, a boolean or an array of strings.
createDefaultInstance(info) ==
    LET defaults == getInstanceDefaults(info)
    IN  [k \in DOMAIN defaults |-> defaults[k]]

(***************************************************************************)
(* hydrate: getInitialValues.                                              *)
(***************************************************************************)
\* A faulty variant: contextGranularity is not inferred from a stored context.
HydrateInstanceNoGranularity(instance, instanceDefaults) ==
    [k \in DOMAIN instance \cup DOMAIN instanceDefaults |->
        IF k \in DOMAIN instance THEN instance[k] ELSE instanceDefaults[k]]

\* A faulty variant: the defaults overwrite what the stored record defines.
HydrateInstanceOverwrite(instance, instanceDefaults) ==
    [k \in DOMAIN instance \cup DOMAIN instanceDefaults |->
        IF k \in DOMAIN instanceDefaults THEN instanceDefaults[k] ELSE instance[k]]

\* A faulty variant: an empty stored context does not make the granularity
\* SPECIFIC.
HydrateInstanceNonEmptyContext(instance, instanceDefaults) ==
    LET withGranularity ==
            IF "context" \in DOMAIN instance /\ instance.context # <<>>
            THEN Assign(instance,
                        [contextGranularity |-> contextGranularityEnum.SPECIFIC])
            ELSE instance
    IN  [k \in DOMAIN withGranularity \cup DOMAIN instanceDefaults |->
            IF k \in DOMAIN withGranularity
            THEN withGranularity[k]
            ELSE instanceDefaults[k]]

\* The body of instances.forEach: what the stored record is after it.
HydrateInstance(instance, instanceDefaults) ==
    LET withGranularity ==
            IF "context" \in DOMAIN instance
            THEN Assign(instance,
                        [contextGranularity |-> contextGranularityEnum.SPECIFIC])
            ELSE instance
    IN  [k \in DOMAIN withGranularity \cup DOMAIN instanceDefaults |->
            IF k \in DOMAIN withGranularity
            THEN withGranularity[k]
            ELSE instanceDefaults[k]]

\* `if (instances)`: an array, also an empty one, is truthy; undefined is not.
HasInstances(info) ==
    /\ info.settings # Undefined
    /\ "instances" \in DOMAIN info.settings

\* The stored array after the forEach, which writes into its records.
StoredInstancesAfter(info) ==
    [i \in 1..Len(info.settings.instances) |->
        HydrateInstance(info.settings.instances[i], getInstanceDefaults(info))]

\* The value getInitialValues returns.
getInitialValues(info) ==
    [instances |->
        IF HasInstances(info)
        THEN StoredInstancesAfter(info)
        ELSE <<createDefaultInstance(info)>>]

\* initInfo after getInitialValues: the records of settings.instances were
\* written in place.
InitInfoAfterGetInitialValues(info) ==
    IF HasInstances(info)
    THEN [info EXCEPT !.settings.instances = StoredInstancesAfter(info)]
    ELSE info

\* Whether the returned instances array is the stored array itself.
ReturnsStoredArray(info) == HasInstances(info)

(***************************************************************************)
(* Texts and numbers: yup's number().isValidSync and JavaScript's Number.  *)
(* The texts of the model hold no white space, exponent or radix prefix,   *)
(* so a text is numeric when it is an optional sign and decimal digits     *)
(* with at most one point.                                                 *)
(***************************************************************************)
DigitChars == <<"0", "1", "2", "3", "4", "5", "6", "7", "8", "9">>

IsDigit(c) == \E i \in 1..Len(DigitChars) : DigitChars[i] = c

DigitValue(c) == (CHOOSE i \in 1..Len(DigitChars) : DigitChars[i] = c) - 1

Unsigned(s) == IF s # <<>> /\ s[1] \in {"+", "-"} THEN Tail(s) ELSE s

PointsOf(b) == {i \in 1..Len(b) : b[i] = "."}

\* The text is a StrDecimalLiteral: Number(text) is not NaN.
IsDecimalText(s) ==
    LET b == Unsigned(s)
    IN  /\ Cardinality(PointsOf(b)) <= 1
        /\ \A i \in 1..Len(b) : b[i] = "." \/ IsDigit(b[i])
        /\ \E i \in 1..Len(b) : IsDigit(b[i])

RECURSIVE DigitsValue(_)
DigitsValue(ds) ==
    IF ds = <<>>
    THEN 0
    ELSE DigitsValue(SubSeq(ds, 1, Len(ds) - 1)) * 10 + DigitValue(ds[Len(ds)])

\* m * 10^-e without trailing zeros in the fraction.
RECURSIVE Normalized(_, _)
Normalized(m, e) ==
    IF e > 0 /\ m % 10 = 0 THEN Normalized(m \div 10, e - 1) ELSE Num(m, e)

\* Number(text) of a decimal text.
NumberOfText(s) ==
    LET b == Unsigned(s)
        e == IF PointsOf(b) = {} THEN 0 ELSE Len(b) - (CHOOSE i \in PointsOf(b) : TRUE)
        magnitude == DigitsValue(SelectSeq(b, IsDigit))
    IN  Normalized(IF s[1] = "-" THEN 0 - magnitude ELSE magnitude, e)

\* number().isValidSync(value): a number, or a text that denotes one.
NumberIsValid(v) == v.type = "number" \/ IsDecimalText(v.chars)

\* Number(value), for a value number().isValidSync accepts.
ToNumber(v) == IF v.type = "number" THEN v ELSE NumberOfText(v.chars)

NumberIsInteger(n) == n.e = 0

(***************************************************************************)
(* trim: getSettings.                                                      *)
(***************************************************************************)
\* utils/copyPropertiesIfNotDefault: each listed key of fromObj whose value is
\* not the default's is copied to toObj.
copyPropertiesIfNotDefault(toObj, fromObj, defaultsObj, keys) ==
    LET copied == {k \in keys : k \in DOMAIN fromObj /\ fromObj[k] # defaultsObj[k]}
    IN  Assign(toObj, [k \in copied |-> fromObj[k]])

AllowList ==
    {"propertyId", "imsOrgId", "edgeDomain", "errorsEnabled", "optInEnabled",
     "idSyncEnabled", "destinationsEnabled", "prehidingStyle"}

\* A faulty variant: the container ID is kept as the text typed.
ContainerIdToStoreAsTyped(instance) == instance.idSyncContainerId

\* What is stored as idSyncContainerId: the number, if the value denotes one.
ContainerIdToStore(instance) ==
    IF NumberIsValid(instance.idSyncContainerId)
    THEN ToNumber(instance.idSyncContainerId)
    ELSE instance.idSyncContainerId

StoresContainerId(instance, instanceDefaults) ==
    /\ instance.idSyncEnabled
    /\ instance.idSyncContainerId # instanceDefaults.idSyncContainerId

\* A faulty variant: errorsEnabled is stored whatever its value.
TrimInstanceKeepsErrorsEnabled(instance, instanceDefaults) ==
    LET simple == copyPropertiesIfNotDefault(
                      [name |-> instance.name, errorsEnabled |-> instance.errorsEnabled],
                      instance, instanceDefaults, AllowList)
        withId == IF StoresContainerId(instance, instanceDefaults)
                  THEN Assign(simple, [idSyncContainerId |-> ContainerIdToStore(instance)])
                  ELSE simple
    IN  IF instance.contextGranularity = contextGranularityEnum.SPECIFIC
        THEN Assign(withId, [context |-> instance.context])
        ELSE withId

\* A faulty variant: the context is stored when the granularity is ALL.
TrimInstanceContextInverted(instance, instanceDefaults) ==
    LET simple == copyPropertiesIfNotDefault(
                      [name |-> instance.name], instance, instanceDefaults, AllowList)
        withId == IF StoresContainerId(instance, instanceDefaults)
                  THEN Assign(simple, [idSyncContainerId |-> ContainerIdToStore(instance)])
                  ELSE simple
    IN  IF instance.contextGranularity = contextGranularityEnum.ALL
        THEN Assign(withId, [context |-> instance.context])
        ELSE withId

\* A faulty variant: optInEnabled is missing from the list of copied fields.
TrimInstanceWithoutOptIn(instance, instanceDefaults) ==
    LET simple == copyPropertiesIfNotDefault(
                      [name |-> instance.name], instance, instanceDefaults,
                      AllowList \ {"optInEnabled"})
        withId == IF StoresContainerId(instance, instanceDefaults)
                  THEN Assign(simple, [idSyncContainerId |-> ContainerIdToStore(instance)])
                  ELSE simple
    IN  IF instance.contextGranularity = contextGranularityEnum.SPECIFIC
        THEN Assign(withId, [context |-> instance.context])
        ELSE withId

\* The body of values.instances.map: the trimmed instance.
TrimInstance(instance, instanceDefaults) ==
    LET simple == copyPropertiesIfNotDefault(
                      [name |-> instance.name], instance, instanceDefaults, AllowList)
        withId == IF StoresContainerId(instance, instanceDefaults)
                  THEN Assign(simple, [idSyncContainerId |-> ContainerIdToStore(instance)])
                  ELSE simple
    IN  IF instance.contextGranularity = contextGranularityEnum.SPECIFIC
        THEN Assign(withId, [context |-> instance.context])
        ELSE withId

getSettings(vals, info) ==
    [instances |->
        [i \in 1..Len(vals.instances) |->
            TrimInstance(vals.instances[i], getInstanceDefaults(info))]]

(***************************************************************************)
(* validate: validationSchema.  The result is the set of errors, each a    *)
(* path instances[index].key (index from 0, as the code reports it) and a  *)
(* message; every rule is run and every failure is reported.               *)
(***************************************************************************)
Error(index, key, message) ==
    [path |-> [index |-> index, key |-> key], message |-> message]

\* The properties of the window object the names of the model can meet.
WindowProperties == {<<"t", "o", "p">>}

\* A test that fails adds its error.
ErrorIf(failed, error) == IF failed THEN {error} ELSE {}

\* /\D+/: the name holds a character that is no digit.
MatchesNonDigit(name) == \E i \in 1..Len(name) : ~IsDigit(name[i])

\* A faulty variant: the pattern that asks for a non-digit is left out.
NameErrorsWithoutPattern(instance, index) ==
    ErrorIf(instance.name = <<>>, Error(index, "name", "Please specify a name."))
    \cup ErrorIf(instance.name \in WindowProperties,
                 Error(index, "name",
                       "Please provide a name that does not conflict with a property already found on the window object."))

\* name: required, matches(/\D+/), notWindowPropertyName.
NameErrors(instance, index) ==
    ErrorIf(instance.name = <<>>, Error(index, "name", "Please specify a name."))
    \cup ErrorIf(~MatchesNonDigit(instance.name),
                 Error(index, "name", "Please provide a non-numeric name."))
    \cup ErrorIf(instance.name \in WindowProperties,
                 Error(index, "name",
                       "Please provide a name that does not conflict with a property already found on the window object."))

\* propertyId, imsOrgId, edgeDomain: string().required().
RequiredErrors(instance, index) ==
    ErrorIf(instance.propertyId = "",
            Error(index, "propertyId", "Please specify a property ID."))
    \cup ErrorIf(instance.imsOrgId = "",
                 Error(index, "imsOrgId", "Please specify an IMS organization ID."))
    \cup ErrorIf(instance.edgeDomain = "",
                 Error(index, "edgeDomain", "Please specify an edge domain."))

idSyncContainerIdValidationMessage ==
    "Please specify a non-negative integer or data element for the container ID."

\* constants/singleDataElementRegex, /^%[^%]+%$/: one token %...% with no % inside.
singleDataElementRegex(chars) ==
    /\ Len(chars) >= 3
    /\ chars[1] = "%"
    /\ chars[Len(chars)] = "%"
    /\ \A i \in 2..(Len(chars) - 1) : chars[i] # "%"

\* A faulty variant: the minimum is 1, not 0.
ContainerIdPassesMinOne(instance) ==
    LET value == instance.idSyncContainerId
    IN  IF NumberIsValid(value)
        THEN \/ instance.idSyncEnabled # TRUE
             \/ NumberIsInteger(ToNumber(value)) /\ ToNumber(value).m >= 1
        ELSE \/ instance.idSyncEnabled # TRUE
             \/ value.chars = <<>>
             \/ singleDataElementRegex(value.chars)

\* A faulty variant: no rule is put on a value that denotes a number.
ContainerIdPassesAnyNumber(instance) ==
    LET value == instance.idSyncContainerId
    IN  IF NumberIsValid(value)
        THEN TRUE
        ELSE \/ instance.idSyncEnabled # TRUE
             \/ value.chars = <<>>
             \/ singleDataElementRegex(value.chars)

\* lazy(value => ...): the number rules for a value that denotes a number, the
\* token pattern (the empty string excluded) for any other, both only when
\* idSyncEnabled is true.
ContainerIdPasses(instance) ==
    LET value == instance.idSyncContainerId
    IN  IF NumberIsValid(value)
        THEN \/ instance.idSyncEnabled # TRUE
             \/ NumberIsInteger(ToNumber(value)) /\ ToNumber(value).m >= 0
        ELSE \/ instance.idSyncEnabled # TRUE
             \/ value.chars = <<>>
             \/ singleDataElementRegex(value.chars)

ContainerIdErrors(instance, index) ==
    ErrorIf(~ContainerIdPasses(instance),
            Error(index, "idSyncContainerId", idSyncContainerIdValidationMessage))

UniqueKeys == {"name", "propertyId", "imsOrgId"}

UniqueMessage ==
    [name |-> "Please provide a name unique from those used for other instances.",
     propertyId |->
        "Please provide a property ID unique from those used for other instances.",
     imsOrgId |->
        "Please provide an IMS Organization ID unique from those used for other instances."]

\* values.indexOf(value), from 0.
IndexOf(vals, value) ==
    (CHOOSE i \in 1..Len(vals) :
        vals[i] = value /\ \A j \in 1..(i - 1) : vals[j] # value) - 1

\* A faulty variant: every duplicate is an index, so the last one is found.
DuplicateIndexLast(vals) ==
    LET dups == {i \in 0..(Len(vals) - 1) : IndexOf(vals, vals[i + 1]) < i}
    IN  IF dups = {} THEN 0 - 1 ELSE CHOOSE i \in dups : \A j \in dups : j <= i

\* A faulty variant: the earlier occurrence is reported.
DuplicateIndexEarlier(vals) ==
    LET dups == {i \in 0..(Len(vals) - 1) : IndexOf(vals, vals[i + 1]) < i}
    IN  IF dups = {}
        THEN 0 - 1
        ELSE IndexOf(vals, vals[(CHOOSE i \in dups : \A j \in dups : i <= j) + 1])

\* A faulty variant: a value is compared with the one just before it only.
DuplicateIndexAdjacent(vals) ==
    LET dups == {i \in 1..(Len(vals) - 1) : vals[i] = vals[i + 1]}
    IN  IF dups = {} THEN 0 - 1 ELSE CHOOSE i \in dups : \A j \in dups : i <= j

\* values.findIndex((value, index) => values.indexOf(value) < index): the
\* smallest such index, from 0, or -1.
DuplicateIndex(vals) ==
    LET dups == {i \in 0..(Len(vals) - 1) : IndexOf(vals, vals[i + 1]) < i}
    IN  IF dups = {} THEN 0 - 1 ELSE CHOOSE i \in dups : \A j \in dups : i <= j

validateDuplicateValue(instances, key, message) ==
    LET vals == [i \in 1..Len(instances) |-> instances[i][key]]
        duplicateIndex == DuplicateIndex(vals)
    IN  IF duplicateIndex = 0 - 1 THEN {} ELSE {Error(duplicateIndex, key, message)}

validationSchema(vals) ==
    (UNION {NameErrors(vals.instances[i], i - 1)
            \cup RequiredErrors(vals.instances[i], i - 1)
            \cup ContainerIdErrors(vals.instances[i], i - 1) :
                i \in 1..Len(vals.instances)})
    \cup validateDuplicateValue(vals.instances, "name", UniqueMessage.name)
    \cup validateDuplicateValue(vals.instances, "propertyId", UniqueMessage.propertyId)
    \cup validateDuplicateValue(vals.instances, "imsOrgId", UniqueMessage.imsOrgId)

(***************************************************************************)
(* The text field of the container ID shows the value as text; a key       *)
(* stroke appends a character to it.                                       *)
(***************************************************************************)
RECURSIVE DigitsOf(_)
DigitsOf(n) ==
    IF n < 10
    THEN <<DigitChars[n + 1]>>
    ELSE Append(DigitsOf(n \div 10), DigitChars[(n % 10) + 1])

\* String(number): the sign, the integer digits and, if any, the fraction.
TextOfNumber(n) ==
    LET magnitude == IF n.m < 0 THEN 0 - n.m ELSE n.m
        ds == DigitsOf(magnitude)
        padded == IF Len(ds) <= n.e
                  THEN [i \in 1..(n.e + 1 - Len(ds)) |-> "0"] \o ds
                  ELSE ds
        whole == SubSeq(padded, 1, Len(padded) - n.e)
        fraction == SubSeq(padded, Len(padded) - n.e + 1, Len(padded))
    IN  (IF n.m < 0 THEN <<"-">> ELSE <<>>)
        \o whole
        \o (IF n.e > 0 THEN <<".">> \o fraction ELSE <<>>)

TextOf(value) == IF value.type = "number" THEN TextOfNumber(value) ELSE value.chars

(***************************************************************************)
(* The inputs of the model.                                                *)
(***************************************************************************)
OrgId == "ORG1@AdobeOrg"

OtherName == <<"a", "1">>

\* Stored records that define, besides the name, the fields of one group.
SimpleOverrides ==
    {[propertyId |-> "PR1"], [imsOrgId |-> "ORG2@AdobeOrg"], [imsOrgId |-> OrgId],
     [edgeDomain |-> "edge.example.com"], [errorsEnabled |-> FALSE],
     [errorsEnabled |-> TRUE], [optInEnabled |-> TRUE],
     [destinationsEnabled |-> FALSE], [prehidingStyle |-> "#hero { opacity: 0 }"]}

StoredContainerIds ==
    {Str(<<>>), Str(<<"5">>), Str(<<"%", "a", "%">>), Str(<<"a", "b", "c">>),
     Str(<<"-", "1">>), Num(5, 0), Num(0, 0), Num(15, 1)}

IdSyncOverrides ==
    {<<>>} \cup {[idSyncEnabled |-> b] : b \in BOOLEAN}
    \cup {[idSyncContainerId |-> c] : c \in StoredContainerIds}
    \cup {[idSyncEnabled |-> b, idSyncContainerId |-> c] :
            b \in BOOLEAN, c \in StoredContainerIds}

StoredContexts == {<<>>, <<"web">>, <<"device", "web">>, contextOptions}

ContextOverrides ==
    {[context |-> c] : c \in StoredContexts}
    \cup {[contextGranularity |-> g] :
            g \in {contextGranularityEnum.ALL, contextGranularityEnum.SPECIFIC}}
    \cup {[context |-> c, contextGranularity |-> contextGranularityEnum.ALL] :
            c \in StoredContexts}

StoredInstances ==
    {Assign([name |-> DefaultName], o) :
        o \in SimpleOverrides \cup IdSyncOverrides \cup ContextOverrides}
    \cup {[name |-> OtherName],
          [propertyId |-> "PR2"],
          [name |-> OtherName, propertyId |-> "PR2", optInEnabled |-> TRUE,
           idSyncContainerId |-> Str(<<"5">>), context |-> <<"web">>]}

SeqsUpTo(S, n) == UNION {[1..k -> S] : k \in 0..n}

InitInfos(instanceSeqs) ==
    {[company |-> [orgId |-> OrgId], settings |-> st] :
        st \in {Undefined} \cup {[instances |-> q] : q \in instanceSeqs}}

(***************************************************************************)
(* The host: it opens the view with initInfo (getInitialValues), asks for  *)
(* validation, takes the settings (getSettings), stores them and passes    *)
(* them to the next session.                                               *)
(***************************************************************************)
InitWith(infos) ==
    /\ initInfo \in infos
    /\ values = Undefined
    /\ sameArray = FALSE
    /\ errors = {}
    /\ saved = Undefined
    /\ prevSaved = Undefined
    /\ pc = "start"
    /\ session = 1
    /\ fixRounds = [k \in UniqueKeys |-> 0]
    /\ settings = Undefined
    /\ calls = <<>>
    /\ logged = <<>>
    /\ raised = FALSE

Init == InitWith(InitInfos(SeqsUpTo(StoredInstances, MaxStored)))

GetInitialValues ==
    /\ pc = "start"
    /\ values' = getInitialValues(initInfo)
    /\ initInfo' = InitInfoAfterGetInitialValues(initInfo)
    /\ sameArray' = ReturnsStoredArray(initInfo)
    /\ errors' = {}
    /\ pc' = "editing"
    /\ UNCHANGED <<saved, prevSaved, session, fixRounds, libVars>>

Validate ==
    /\ pc = "editing"
    /\ errors' = validationSchema(values)
    /\ pc' = "validated"
    /\ UNCHANGED <<initInfo, values, sameArray, saved, prevSaved, session, fixRounds, libVars>>

GetSettings ==
    /\ pc \in {"editing", "validated"}
    /\ saved' = getSettings(values, initInfo)
    /\ pc' = "saved"
    /\ UNCHANGED <<initInfo, values, sameArray, errors, prevSaved, session, fixRounds, libVars>>

Reload ==
    /\ pc = "saved"
    /\ session < MaxSessions
    /\ initInfo' = [initInfo EXCEPT !.settings = saved]
    /\ prevSaved' = saved
    /\ saved' = Undefined
    /\ values' = Undefined
    /\ sameArray' = FALSE
    /\ errors' = {}
    /\ pc' = "start"
    /\ session' = session + 1
    /\ UNCHANGED <<fixRounds, libVars>>

Next == GetInitialValues \/ Validate \/ GetSettings \/ Reload

Spec == Init /\ [][Next]_vars

(***************************************************************************)
(* The user: Add Instance, Delete Instance (confirmed) and field edits.    *)
(* The form holds its values immutably (an edit builds new values) and     *)
(* validates again after every change.                                     *)
(***************************************************************************)
Editing == pc \in {"editing", "validated"}

\* The uniqueness errors of a key among errs.
UniqueErrors(errs, key) ==
    {err \in errs : err.path.key = key /\ err.message = UniqueMessage[key]}

\* The edit answers the uniqueness error reported for instances[i - 1].key with a
\* value no instance uses.
IsFix(i, key, v) ==
    /\ pc = "validated"
    /\ key \in UniqueKeys
    /\ Error(i - 1, key, UniqueMessage[key]) \in errors
    /\ \A j \in 1..Len(values.instances) : values.instances[j][key] # v

SetFieldValue(i, key, v) ==
    /\ Editing
    /\ i \in 1..Len(values.instances)
    /\ values.instances[i][key] # v
    /\ values' = [values EXCEPT !.instances[i][key] = v]
    /\ errors' = validationSchema(values')
    /\ sameArray' = FALSE
    /\ pc' = "validated"
    /\ fixRounds' = [k \in UniqueKeys |->
                        IF k = key /\ IsFix(i, key, v) THEN fixRounds[k] + 1 ELSE 0]
    /\ UNCHANGED <<initInfo, saved, prevSaved, session, libVars>>

AddInstance ==
    /\ Editing
    /\ Len(values.instances) < MaxInstances
    /\ values' = [values EXCEPT !.instances = Append(@, createDefaultInstance(initInfo))]
    /\ errors' = validationSchema(values')
    /\ sameArray' = FALSE
    /\ pc' = "validated"
    /\ fixRounds' = [k \in UniqueKeys |-> 0]
    /\ UNCHANGED <<initInfo, saved, prevSaved, session, libVars>>

\* Delete Instance is rendered while there is more than one instance.
RemoveInstance(i) ==
    /\ Editing
    /\ Len(values.instances) > 1
    /\ i \in 1..Len(values.instances)
    /\ values' = [values EXCEPT !.instances =
                    SubSeq(@, 1, i - 1) \o SubSeq(@, i + 1, Len(@))]
    /\ errors' = validationSchema(values')
    /\ sameArray' = FALSE
    /\ pc' = "validated"
    /\ fixRounds' = [k \in UniqueKeys |-> 0]
    /\ UNCHANGED <<initInfo, saved, prevSaved, session, libVars>>

\* The values typed into the fields that must be unique.
EditValues ==
    [name |-> {DefaultName, <<"a">>, <<"b">>},
     propertyId |-> {"", "PR1"},
     imsOrgId |-> {OrgId, "ORG2@AdobeOrg"}]

\* The settings the editing session is opened on: two instances that share a
\* name and a property ID.
EditedInstances ==
    <<[name |-> <<"a">>, propertyId |-> "PR1"],
      [name |-> <<"a">>, propertyId |-> "PR1", imsOrgId |-> "ORG2@AdobeOrg"]>>

InitEdit == InitWith(InitInfos({EditedInstances}) \ InitInfos({}))

NextEdit ==
    \/ GetInitialValues
    \/ Validate
    \/ AddInstance
    \/ \E i \in 1..MaxInstances : RemoveInstance(i)
    \/ \E i \in 1..MaxInstances : \E key \in UniqueKeys : \E v \in EditValues[key] :
            SetFieldValue(i, key, v)
    \/ GetSettings

SpecEdit == InitEdit /\ [][NextEdit]_vars

\* A key stroke in the container ID field, and the ID sync check box.
TypedChars == {"0", "5", "-", ".", "%", "a"}

TypeContainerId(i, c) ==
    /\ Editing
    /\ i \in 1..Len(values.instances)
    /\ Len(TextOf(values.instances[i].idSyncContainerId)) < MaxLen
    /\ SetFieldValue(i, "idSyncContainerId",
                     Str(Append(TextOf(values.instances[i].idSyncContainerId), c)))

ToggleIdSync(i) ==
    /\ Editing
    /\ i \in 1..Len(values.instances)
    /\ SetFieldValue(i, "idSyncEnabled", ~values.instances[i].idSyncEnabled)

TypedInstances ==
    {<<[name |-> DefaultName, propertyId |-> "PR1", idSyncContainerId |-> c]>> :
        c \in {Num(5, 0), Num(0 - 1, 0), Num(15, 1), Num(0, 0)}}

InitType == InitWith(InitInfos(TypedInstances))

NextType ==
    \/ GetInitialValues
    \/ Validate
    \/ \E c \in TypedChars : TypeContainerId(1, c)
    \/ ToggleIdSync(1)
    \/ GetSettings

SpecType == InitType /\ [][NextType]_vars

(***************************************************************************)
(* The normalizer: hydrate and trim.                                       *)
(***************************************************************************)
\* A step of getInitialValues.
HydrateStep == pc = "start" /\ pc' = "editing"

Defaults == getInstanceDefaults(initInfo)

\* C1: idempotence of the persist round trip.  The settings saved by a session
\* that was opened on the settings the session before saved, and edited nothing,
\* are those settings: trim(hydrate(trim(hydrate(S)))) = trim(hydrate(S)).
C1_RoundTripIdempotent ==
    (pc = "saved" /\ session >= 2) => saved = prevSaved

C1_Witness ==
    /\ pc = "saved"
    /\ session = 2
    /\ \E i \in 1..Len(saved.instances) :
        /\ "context" \in DOMAIN saved.instances[i]
        /\ "idSyncContainerId" \in DOMAIN saved.instances[i]
        /\ saved.instances[i].idSyncContainerId.type = "number"
    /\ \E i \in 1..Len(saved.instances) :
        /\ "idSyncEnabled" \in DOMAIN saved.instances[i]
        /\ saved.instances[i].idSyncEnabled = FALSE

\* C2, as stated: no field of a trimmed instance other than name holds the
\* value of its default.
C2_NoFieldEqualsDefault ==
    pc = "saved" =>
        \A i \in 1..Len(saved.instances) :
            \A k \in DOMAIN saved.instances[i] \ {"name"} :
                saved.instances[i][k] # Defaults[k]

\* C2, amended: no field of a trimmed instance other than name and context
\* holds the value of its default; context is stored whenever the granularity
\* is SPECIFIC, also when it is the full list of options.
C2_NoFieldButContextEqualsDefault ==
    pc = "saved" =>
        \A i \in 1..Len(saved.instances) :
            /\ \A k \in DOMAIN saved.instances[i] \ {"name", "context"} :
                    saved.instances[i][k] # Defaults[k]
            /\ "context" \in DOMAIN saved.instances[i] <=>
                    values.instances[i].contextGranularity = contextGranularityEnum.SPECIFIC

C2_Witness ==
    /\ pc = "saved"
    /\ \E i \in 1..Len(saved.instances) :
        /\ "context" \in DOMAIN saved.instances[i]
        /\ saved.instances[i].context = contextOptions
        /\ values.instances[i].errorsEnabled = Defaults.errorsEnabled
    /\ \E i \in 1..Len(saved.instances) :
        /\ "errorsEnabled" \in DOMAIN saved.instances[i]
        /\ values.instances[i].idSyncContainerId = Defaults.idSyncContainerId

\* C3, as stated: getInitialValues leaves the settings the host passed as they
\* were and returns records that are not the stored ones.
C3_HydrateLeavesStoredUnchanged ==
    [][HydrateStep => (initInfo' = initInfo /\ sameArray' = FALSE)]_vars

\* C3, amended: getInitialValues writes into the stored records and returns
\* them.  It changes nothing else of initInfo: the stored array keeps its
\* length and order, a stored record keeps every key it defined with its value
\* (but contextGranularity when it defines context), and the keys it gains are
\* keys of the defaults.  Only settings without instances are left untouched
\* and answered with a new record.
C3_HydrateWritesOnlyIntoStoredRecords ==
    [][HydrateStep =>
        IF HasInstances(initInfo)
        THEN LET old == initInfo.settings.instances
                 new == initInfo'.settings.instances
             IN  /\ sameArray'
                 /\ values'.instances = new
                 /\ initInfo'.company = initInfo.company
                 /\ DOMAIN initInfo'.settings = DOMAIN initInfo.settings
                 /\ Len(new) = Len(old)
                 /\ \A i \in 1..Len(old) :
                        /\ DOMAIN old[i] \subseteq DOMAIN new[i]
                        /\ DOMAIN new[i] \subseteq DOMAIN old[i] \cup DOMAIN Defaults
                        /\ \A k \in DOMAIN old[i] :
                               \/ k = "contextGranularity" /\ "context" \in DOMAIN old[i]
                               \/ new[i][k] = old[i][k]
        ELSE initInfo' = initInfo /\ sameArray' = FALSE]_vars

C3_Witness ==
    /\ pc = "editing"
    /\ sameArray
    /\ Len(values.instances) = 2
    /\ initInfo.settings.instances = values.instances
    /\ values.instances[1].name = OtherName
    /\ values.instances[2].contextGranularity = contextGranularityEnum.SPECIFIC

\* C4: getInitialValues answers stored settings whose instances are empty or
\* absent with exactly one instance, the defaults, and any other with one
\* working instance per stored instance, in the stored order.
C4_HydrateLength ==
    [][HydrateStep =>
        IF ~HasInstances(initInfo) \/ initInfo.settings.instances = <<>>
        THEN values'.instances = <<createDefaultInstance(initInfo)>>
        ELSE /\ Len(values'.instances) = Len(initInfo.settings.instances)
             /\ \A i \in 1..Len(initInfo.settings.instances) :
                    \A k \in DOMAIN initInfo.settings.instances[i] \ {"contextGranularity"} :
                        values'.instances[i][k] = initInfo.settings.instances[i][k]]_vars

\* C5: default-fill total coverage.  After getInitialValues every working
\* instance defines every key of the defaults; a key the stored record defined
\* keeps the stored value, but contextGranularity, which is SPECIFIC whenever
\* the stored record defines context.
C5_DefaultFill ==
    [][HydrateStep =>
        /\ \A i \in 1..Len(values'.instances) :
               DOMAIN Defaults \subseteq DOMAIN values'.instances[i]
        /\ HasInstances(initInfo) =>
               \A i \in 1..Len(initInfo.settings.instances) :
                   LET stored == initInfo.settings.instances[i]
                       working == values'.instances[i]
                   IN  /\ \A k \in DOMAIN stored \ {"contextGranularity"} :
                              working[k] = stored[k]
                       /\ "context" \in DOMAIN stored =>
                              working.contextGranularity = contextGranularityEnum.SPECIFIC
                       /\ ("contextGranularity" \in DOMAIN stored
                           /\ "context" \notin DOMAIN stored) =>
                              working.contextGranularity = stored.contextGranularity
                       /\ \A k \in DOMAIN Defaults \ DOMAIN stored :
                              k # "contextGranularity" => working[k] = Defaults[k]]_vars

C5_Witness ==
    /\ pc = "editing"
    /\ session = 1
    /\ \E i \in 1..Len(values.instances) :
        /\ values.instances[i].context = <<"web">>
        /\ values.instances[i].contextGranularity = contextGranularityEnum.SPECIFIC
        /\ values.instances[i].propertyId = Defaults.propertyId
        /\ values.instances[i].idSyncContainerId = Defaults.idSyncContainerId
    /\ \E i \in 1..Len(values.instances) :
        /\ values.instances[i].propertyId = "PR1"
        /\ values.instances[i].context = Defaults.context

\* C6: allow-list minimality of trim.  A field of the allow-list is in the
\* trimmed instance exactly when the working value differs from the default,
\* and then with the working value; name is always there, with the working
\* name.
C6_AllowListMinimal ==
    pc = "saved" =>
        /\ Len(saved.instances) = Len(values.instances)
        /\ \A i \in 1..Len(values.instances) :
            /\ "name" \in DOMAIN saved.instances[i]
            /\ saved.instances[i].name = values.instances[i].name
            /\ \A f \in AllowList :
                /\ f \in DOMAIN saved.instances[i] <=>
                       values.instances[i][f] # Defaults[f]
                /\ f \in DOMAIN saved.instances[i] =>
                       saved.instances[i][f] = values.instances[i][f]

C6_Witness ==
    /\ pc = "saved"
    /\ \E i \in 1..Len(saved.instances) :
        /\ "optInEnabled" \in DOMAIN saved.instances[i]
        /\ "propertyId" \in DOMAIN saved.instances[i]
        /\ "errorsEnabled" \notin DOMAIN saved.instances[i]
        /\ values.instances[i].errorsEnabled = TRUE
    /\ \E i \in 1..Len(saved.instances) :
        /\ "imsOrgId" \in DOMAIN saved.instances[i]
        /\ "optInEnabled" \notin DOMAIN saved.instances[i]

(***************************************************************************)
(* The validator: uniqueness of name, propertyId and imsOrgId.             *)
(***************************************************************************)
KeyValues(key) == [i \in 1..Len(values.instances) |-> values.instances[i][key]]

\* The value at index i (from 0) also occurs at an earlier index.
OccursEarlier(vals, i) == \E j \in 0..(i - 1) : vals[j + 1] = vals[i + 1]

\* C7: duplicate detection position.  For each of name, propertyId and imsOrgId
\* validate reports no uniqueness error when the values are pairwise distinct,
\* and otherwise exactly the error at the smallest index whose value occurs at an
\* earlier index; never at the earlier occurrence.
C7_DuplicateReportedAtLaterIndex ==
    pc = "validated" =>
        \A key \in UniqueKeys :
            LET vals == KeyValues(key)
                later == {i \in 0..(Len(vals) - 1) : OccursEarlier(vals, i)}
            IN  IF later = {}
                THEN UniqueErrors(errors, key) = {}
                ELSE \E i \in later :
                        /\ \A j \in later : i <= j
                        /\ UniqueErrors(errors, key) = {Error(i, key, UniqueMessage[key])}

C7_Witness ==
    /\ pc = "validated"
    /\ Len(values.instances) = 3
    /\ values.instances[1].name = values.instances[3].name
    /\ values.instances[2].name # values.instances[1].name
    /\ UniqueErrors(errors, "name") = {Error(2, "name", UniqueMessage.name)}
    /\ values.instances[1].propertyId = values.instances[2].propertyId
    /\ UniqueErrors(errors, "propertyId") = {Error(1, "propertyId", UniqueMessage.propertyId)}
    /\ values.instances[1].imsOrgId # values.instances[2].imsOrgId
    /\ values.instances[1].imsOrgId = values.instances[3].imsOrgId
    /\ UniqueErrors(errors, "imsOrgId") = {Error(2, "imsOrgId", UniqueMessage.imsOrgId)}

\* A step that changes only instances[i - 1].key, of the record the uniqueness
\* error of key is reported for, to a value that no instance used.
FixStep(i, key) ==
    /\ pc = "validated"
    /\ pc' = "validated"
    /\ i \in 1..Len(values.instances)
    /\ Len(values'.instances) = Len(values.instances)
    /\ Error(i - 1, key, UniqueMessage[key]) \in errors
    /\ \A j \in 1..Len(values.instances) :
            values.instances[j][key] # values'.instances[i][key]
    /\ values' = [values EXCEPT !.instances[i][key] = values'.instances[i][key]]

\* C8: progressive duplicate reporting.  A validation reports at most one
\* uniqueness error per key; after the reported record's value is replaced by an
\* unused one, the next validation reports no conflict of that key or one at a
\* strictly larger index; and after r such rounds in a row any conflict left is
\* at an index above r, so none is left after (number of instances - 1) rounds.
C8_ProgressiveReporting ==
    /\ [](pc = "validated" =>
            \A key \in UniqueKeys :
                /\ Cardinality(UniqueErrors(errors, key)) <= 1
                /\ fixRounds[key] <= Len(values.instances) - 1
                /\ \A err \in UniqueErrors(errors, key) : err.path.index > fixRounds[key]
                /\ fixRounds[key] >= Len(values.instances) - 1 =>
                        UniqueErrors(errors, key) = {})
    /\ [][\A key \in UniqueKeys : \A i \in 1..MaxInstances :
            FixStep(i, key) =>
                /\ fixRounds'[key] = fixRounds[key] + 1
                /\ \A err \in UniqueErrors(errors', key) : err.path.index > i - 1]_vars

C8_Witness ==
    /\ pc = "validated"
    /\ Len(values.instances) = 3
    /\ fixRounds.name = 2
    /\ UniqueErrors(errors, "name") = {}
    /\ values.instances[1].propertyId = values.instances[2].propertyId

(***************************************************************************)
(* The container ID: validation and trim of what was typed.                *)
(***************************************************************************)
ContainerIdFailed(i) ==
    \E err \in errors : err.path = [index |-> i - 1, key |-> "idSyncContainerId"]

\* The text reads as an integer that is not negative: an optional sign, digits
\* and at most one point, only zeros after the point, and no digit but zero
\* after a minus sign.
IsNonNegativeIntegerText(s) ==
    LET b == Unsigned(s)
    IN  /\ \E i \in 1..Len(b) : IsDigit(b[i])
        /\ \A i \in 1..Len(b) : IsDigit(b[i]) \/ (b[i] = "." /\ \A j \in 1..Len(b) : b[j] = "." => j = i)
        /\ \A i \in 1..Len(b) : \A j \in (i + 1)..Len(b) : b[i] = "." => b[j] = "0"
        /\ s[1] = "-" => \A i \in 1..Len(b) : b[i] \in {"0", "."}

\* The text is one placeholder token: %, one or more characters that are not %, %.
IsSingleTokenText(s) ==
    /\ Len(s) > 2
    /\ {i \in 1..Len(s) : s[i] = "%"} = {1, Len(s)}

\* C9: the acceptance matrix of idSyncContainerId.  With idSyncEnabled false
\* every value passes; with idSyncEnabled true a value passes exactly when it
\* is the empty string, denotes an integer >= 0 or is a single token, and a
\* value that fails does so with the container ID message.
C9_AcceptanceMatrix ==
    pc = "validated" =>
        \A i \in 1..Len(values.instances) :
            LET value == values.instances[i].idSyncContainerId
                accepted ==
                    IF value.type = "number"
                    THEN value.m >= 0 /\ value.e = 0
                    ELSE \/ value.chars = <<>>
                         \/ IsNonNegativeIntegerText(value.chars)
                         \/ IsSingleTokenText(value.chars)
            IN  /\ ~values.instances[i].idSyncEnabled => ~ContainerIdFailed(i)
                /\ values.instances[i].idSyncEnabled => (ContainerIdFailed(i) <=> ~accepted)
                /\ \A err \in errors :
                        err.path.key = "idSyncContainerId" =>
                            err.message = idSyncContainerIdValidationMessage

C9_Witness ==
    /\ pc = "validated"
    /\ values.instances[1].idSyncEnabled
    /\ values.instances[1].idSyncContainerId = Str(<<"%", "a", "%", "a", "%">>)
    /\ Error(0, "idSyncContainerId", idSyncContainerIdValidationMessage) \in errors

\* C10: trim of idSyncContainerId.  The trimmed instance holds idSyncContainerId
\* exactly when idSyncEnabled is true and the working value is not the empty
\* string; a numeric text is stored as the number it denotes, any other value
\* as it is.
C10_TrimContainerId ==
    pc = "saved" =>
        \A i \in 1..Len(values.instances) :
            LET working == values.instances[i]
                trimmed == saved.instances[i]
                value == working.idSyncContainerId
            IN  /\ "idSyncContainerId" \in DOMAIN trimmed <=>
                        (working.idSyncEnabled /\ value # Str(<<>>))
                /\ "idSyncContainerId" \in DOMAIN trimmed =>
                        IF value.type = "string" /\ IsDecimalText(value.chars)
                        THEN /\ trimmed.idSyncContainerId.type = "number"
                             /\ trimmed.idSyncContainerId.m < 0 =>
                                    value.chars[1] = "-"
                             /\ trimmed.idSyncContainerId.e = 0 <=>
                                    \A j \in 1..Len(value.chars) : \A k \in (j + 1)..Len(value.chars) :
                                        value.chars[j] = "." => value.chars[k] = "0"
                             /\ value.chars = <<"5">> =>
                                    trimmed.idSyncContainerId = Num(5, 0)
                             /\ value.chars = <<"-", "5">> =>
                                    trimmed.idSyncContainerId = Num(0 - 5, 0)
                             /\ value.chars = <<"0", "5", "0">> =>
                                    trimmed.idSyncContainerId = Num(50, 0)
                             /\ value.chars = <<"0", ".", "5", "0">> =>
                                    trimmed.idSyncContainerId = Num(5, 1)
                             /\ value.chars = <<"-", ".", "0", "5">> =>
                                    trimmed.idSyncContainerId = Num(0 - 5, 2)
                             /\ value.chars = <<"5", ".">> =>
                                    trimmed.idSyncContainerId = Num(5, 0)
                        ELSE trimmed.idSyncContainerId = value

C10_Witness ==
    /\ pc = "saved"
    /\ values.instances[1].idSyncEnabled
    /\ values.instances[1].idSyncContainerId = Str(<<"0", ".", "5", "0">>)
    /\ saved.instances[1].idSyncContainerId = Num(5, 1)

(***************************************************************************)
(* The library at run time: the setCustomerIds action of                   *)
(* lib/actions/setCustomerIds/createSetCustomerIds.js.  The instance       *)
(* manager, the instances and turbine.logger are its collaborators: calls  *)
(* records what it invoked on an instance, logged what it logged.          *)
(***************************************************************************)
\* The names the instance manager holds an accessor for, and the names an
\* action can be set to.
ConfiguredNames == {"alloy", "second"}

InstanceNames == ConfiguredNames \cup {"other"}

\* instanceManager.getAccessor(instanceName): the accessor of a configured
\* instance, undefined for any other name.
getAccessor(instanceName) ==
    IF instanceName \in ConfiguredNames THEN [instance |-> instanceName] ELSE Undefined

CustomerIdObjects ==
    {[namespace |-> "ECID", id |-> "id1", authenticatedState |-> "ambiguous"],
     [namespace |-> "ECID", id |-> "id2", authenticatedState |-> "authenticated"],
     [namespace |-> "email", id |-> "id1", authenticatedState |-> "ambiguous",
      primary |-> TRUE]}

\* The settings of an execution; customerIds is undefined when the key is absent.
ActionSettings ==
    {[instanceName |-> n] : n \in InstanceNames}
    \cup {[instanceName |-> n, customerIds |-> ids] :
            n \in InstanceNames, ids \in SeqsUpTo(CustomerIdObjects, MaxIds)}

\* A faulty variant: a namespace keeps the first entry that names it.
RECURSIVE customerIdsConfigFirst(_)
customerIdsConfigFirst(customerIds) ==
    IF customerIds = <<>>
    THEN <<>>
    ELSE LET config == customerIdsConfigFirst(SubSeq(customerIds, 1, Len(customerIds) - 1))
             customerIdObject == customerIds[Len(customerIds)]
         IN  IF customerIdObject.namespace \in DOMAIN config
             THEN config
             ELSE Assign(config, [k \in {customerIdObject.namespace} |-> customerIdObject])

\* customerIds.reduce((config, customerIdObject) => { ... }, {}): from the empty
\* object, each entry in turn is assigned to the key of its namespace.
RECURSIVE customerIdsConfig(_)
customerIdsConfig(customerIds) ==
    IF customerIds = <<>>
    THEN <<>>
    ELSE LET config == customerIdsConfig(SubSeq(customerIds, 1, Len(customerIds) - 1))
             customerIdObject == customerIds[Len(customerIds)]
         IN  Assign(config, [k \in {customerIdObject.namespace} |-> customerIdObject])

FailedMessage(instanceName) ==
    <<"Failed to set customer IDs for instance", instanceName,
      "No matching instance was configured with this name.">>

\* A faulty variant: a name without an accessor is not checked for, and the
\* call on the undefined accessor throws.
createSetCustomerIdsUnchecked(s, lib) ==
    IF getAccessor(s.instanceName) # Undefined /\ "customerIds" \in DOMAIN s
    THEN [lib EXCEPT
            !.calls = Append(@, [instance |-> s.instanceName,
                                 operation |-> "setCustomerIds",
                                 options |-> customerIdsConfig(s.customerIds)]),
            !.raised = FALSE]
    ELSE [lib EXCEPT !.raised = TRUE]

\* The function the module exports, applied to the instance manager and then to
\* settings: what it has invoked and logged when it returns, and whether it
\* threw.  customerIds.reduce throws a TypeError when customerIds is undefined.
createSetCustomerIds(s, lib) ==
    LET instanceAccessor == getAccessor(s.instanceName)
    IN  IF instanceAccessor # Undefined
        THEN IF "customerIds" \in DOMAIN s
             THEN [lib EXCEPT
                     !.calls = Append(@, [instance |-> instanceAccessor.instance,
                                          operation |-> "setCustomerIds",
                                          options |-> customerIdsConfig(s.customerIds)]),
                     !.raised = FALSE]
             ELSE [lib EXCEPT !.raised = TRUE]
        ELSE [lib EXCEPT
                !.logged = Append(@, FailedMessage(s.instanceName)),
                !.raised = FALSE]

\* A rule of the host executes the action with the settings stored for it.
SetCustomerIds(s) ==
    /\ Len(calls) + Len(logged) < MaxCalls
    /\ LET after == createSetCustomerIds(
                        s, [calls |-> calls, logged |-> logged, raised |-> raised])
       IN  /\ calls' = after.calls
           /\ logged' = after.logged
           /\ raised' = after.raised
    /\ settings' = s
    /\ UNCHANGED viewVars

InitAction == InitWith(InitInfos({}))

NextAction == \E s \in ActionSettings : SetCustomerIds(s)

SpecAction == InitAction /\ [][NextAction]_vars

\* A step in which setCustomerIds was executed.
Executed == libVars' # libVars

\* C11: the missing-instance action is fail-soft.  An execution of
\* setCustomerIds with an instanceName the instance manager has no accessor
\* for invokes no instance operation, logs exactly one error, which names the
\* instance, and returns without throwing, whatever customerIds is.
C11_MissingInstanceFailSoft ==
    [][(Executed /\ settings'.instanceName \notin ConfiguredNames) =>
        /\ calls' = calls
        /\ Len(logged') = Len(logged) + 1
        /\ SubSeq(logged', 1, Len(logged)) = logged
        /\ logged'[Len(logged')][2] = settings'.instanceName
        /\ ~raised']_vars

C11_Witness ==
    /\ settings # Undefined
    /\ settings.instanceName = "other"
    /\ "customerIds" \notin DOMAIN settings
    /\ Len(logged) = 2
    /\ calls = <<>>
    /\ ~raised

\* C12: the setCustomerIds reshape.  An execution with the name of a configured
\* instance and an array of customerIds invokes exactly one operation,
\* "setCustomerIds", on that instance and logs nothing; the keys of its argument
\* are exactly the namespaces of the entries, and the value of a namespace is
\* the last entry that has it.
C12_ReshapeLastWins ==
    [][(Executed /\ settings'.instanceName \in ConfiguredNames
                 /\ "customerIds" \in DOMAIN settings') =>
        /\ logged' = logged
        /\ ~raised'
        /\ Len(calls') = Len(calls) + 1
        /\ SubSeq(calls', 1, Len(calls)) = calls
        /\ LET call == calls'[Len(calls')]
               ids == settings'.customerIds
           IN  /\ call.instance = settings'.instanceName
               /\ call.operation = "setCustomerIds"
               /\ DOMAIN call.options = {ids[i].namespace : i \in 1..Len(ids)}
               /\ \A i \in 1..Len(ids) :
                    (\A j \in (i + 1)..Len(ids) : ids[j].namespace # ids[i].namespace)
                        => call.options[ids[i].namespace] = ids[i]]_vars

C12_Witness ==
    /\ settings # Undefined
    /\ settings.instanceName = "second"
    /\ "customerIds" \in DOMAIN settings
    /\ Len(settings.customerIds) = 2
    /\ settings.customerIds[1].namespace = "ECID"
    /\ settings.customerIds[2].namespace = "ECID"
    /\ settings.customerIds[1] # settings.customerIds[2]
    /\ Len(calls) = 1
    /\ calls[1].instance = "second"
    /\ DOMAIN calls[1].options = {"ECID"}
    /\ calls[1].options.ECID = settings.customerIds[2]
    /\ logged = <<>>

(***************************************************************************)
(* The configuration as a whole: uniqueness and the number of instances.   *)
(* The session is opened on no settings, on settings without an instance   *)
(* or on stored instances that differ in name, property ID and             *)
(* organization ID, and the user adds and deletes instances.               *)
(***************************************************************************)
PairwiseDistinct(vals) ==
    \A i \in 1..Len(vals) : \A j \in 1..Len(vals) : i # j => vals[i] # vals[j]

CountedInstances ==
    {[name |-> <<"a">>, propertyId |-> "PR1"],
     [name |-> OtherName, propertyId |-> "PR2", imsOrgId |-> "ORG2@AdobeOrg"],
     [name |-> <<"b">>, propertyId |-> "PR3", imsOrgId |-> "ORG3@AdobeOrg",
      errorsEnabled |-> FALSE]}

InitCount ==
    InitWith(InitInfos({q \in SeqsUpTo(CountedInstances, MaxStored) : PairwiseDistinct(q)}))

NextCount ==
    \/ GetInitialValues
    \/ Validate
    \/ AddInstance
    \/ \E i \in 1..MaxInstances : RemoveInstance(i)
    \/ GetSettings

SpecCount == InitCount /\ [][NextCount]_vars

\* C13, as stated: in every state of an editing session the names, the property
\* IDs and the organization IDs of the instances are pairwise distinct.
C13_AlwaysPairwiseDistinct ==
    Editing => \A key \in UniqueKeys : PairwiseDistinct(KeyValues(key))

\* C13, amended: uniqueness is what validate checks, not what every state of
\* the session has.  Add Instance appends the defaults, whose name, property ID
\* and organization ID repeat those of another untouched instance; a validation
\* reports no uniqueness error of a key exactly when the values of that key are
\* pairwise distinct, so in a state that passed validation all three are.
C13_PairwiseDistinctWhenValid ==
    pc = "validated" =>
        /\ \A key \in UniqueKeys :
                UniqueErrors(errors, key) = {} <=> PairwiseDistinct(KeyValues(key))
        /\ errors = {} => \A key \in UniqueKeys : PairwiseDistinct(KeyValues(key))

C13_Witness ==
    /\ pc = "validated"
    /\ Len(values.instances) = 3
    /\ values.instances[3] = createDefaultInstance(initInfo)
    /\ PairwiseDistinct(KeyValues("name"))
    /\ UniqueErrors(errors, "name") = {}
    /\ values.instances[1].imsOrgId = values.instances[3].imsOrgId
    /\ values.instances[2].imsOrgId # values.instances[3].imsOrgId
    /\ UniqueErrors(errors, "imsOrgId") = {Error(2, "imsOrgId", UniqueMessage.imsOrgId)}

\* C16: the minimum instance count.  From the result of getInitialValues on any
\* stored settings, those with an empty instances array included, and after any
\* additions and confirmed deletions, the form holds at least one instance, and
\* getSettings never returns settings without an instance.
C16_AtLeastOneInstance ==
    /\ Editing => Len(values.instances) >= 1
    /\ pc = "saved" => Len(saved.instances) >= 1

(***************************************************************************)
(* The name field: key strokes and the validation of what was typed.       *)
(***************************************************************************)
NameChars == {"1", "2", "a", "t", "o", "p"}

TypeName(i, c) ==
    /\ Editing
    /\ i \in 1..Len(values.instances)
    /\ Len(values.instances[i].name) < MaxLen
    /\ SetFieldValue(i, "name", Append(values.instances[i].name, c))

\* Backspace at the end of the name.
EraseName(i) ==
    /\ Editing
    /\ i \in 1..Len(values.instances)
    /\ values.instances[i].name # <<>>
    /\ SetFieldValue(i, "name",
                     SubSeq(values.instances[i].name, 1, Len(values.instances[i].name) - 1))

NamedInstances == {<<[name |-> <<c>>, propertyId |-> "PR1"]>> : c \in {"a", "1"}}

InitName == InitWith(InitInfos(NamedInstances) \ InitInfos({}))

NextName ==
    \/ GetInitialValues
    \/ Validate
    \/ \E c \in NameChars : TypeName(1, c)
    \/ EraseName(1)
    \/ GetSettings

SpecName == InitName /\ [][NextName]_vars

\* The messages of the name rules reported for instances[i - 1].name, the
\* uniqueness test apart.
NameMessages(i) ==
    {err.message : err \in {e \in errors : e.path = [index |-> i - 1, key |-> "name"]}}
    \ {UniqueMessage.name}

\* C14: name validation.  validate reports an error on instances[i].name when
\* the name is empty, when it consists of digits only (with the non-numeric
\* message) and when it is the name of a property of the window object; a name
\* with a character that is no digit and that is no property of the window
\* object gets no error from these rules.
C14_NameValidation ==
    pc = "validated" =>
        \A i \in 1..Len(values.instances) :
            LET name == values.instances[i].name
                onlyDigits == \A k \in 1..Len(name) :
                                name[k] \in {"0", "1", "2", "3", "4", "5", "6", "7", "8", "9"}
            IN  /\ name = <<>> => "Please specify a name." \in NameMessages(i)
                /\ (name # <<>> /\ onlyDigits) =>
                        NameMessages(i) = {"Please provide a non-numeric name."}
                /\ name = <<"t", "o", "p">> =>
                        NameMessages(i) =
                            {"Please provide a name that does not conflict with a property already found on the window object."}
                /\ (~onlyDigits /\ name # <<"t", "o", "p">>) => NameMessages(i) = {}

C14_Witness ==
    /\ pc = "validated"
    /\ values.instances[1].name = <<"1", "2", "1">>
    /\ Error(0, "name", "Please provide a non-numeric name.") \in errors

(***************************************************************************)
(* What is saved after a validation that passed.                           *)
(***************************************************************************)
\* getSettings is called on values that were validated.
SaveStep == pc = "validated" /\ pc' = "saved"

\* C15: the validated output conforms to the schema of idSyncContainerId.  For
\* every working instance whose container ID passed validate, the
\* idSyncContainerId of the trimmed instance, if there is one, is a number that
\* is an integer >= 0 or a string that is a single token; it is never the empty
\* string, a negative or fractional number, or a string that reads as a number.
C15_SavedContainerIdConforms ==
    [][SaveStep =>
        \A i \in 1..Len(values.instances) :
            (~ContainerIdFailed(i) /\ "idSyncContainerId" \in DOMAIN saved'.instances[i]) =>
                LET stored == saved'.instances[i].idSyncContainerId
                IN  IF stored.type = "number"
                    THEN stored.e = 0 /\ stored.m >= 0
                    ELSE /\ IsSingleTokenText(stored.chars)
                         /\ ~IsDecimalText(stored.chars)]_vars

C15_Witness ==
    /\ pc = "saved"
    /\ errors = {}
    /\ values.instances[1].idSyncEnabled
    /\ values.instances[1].idSyncContainerId = Str(<<"0", "5", ".", "0">>)
    /\ saved.instances[1].idSyncContainerId = Num(5, 0)

(***************************************************************************)
(* The context: the granularity radio buttons and the check boxes of the   *)
(* context options, which are rendered while the granularity is SPECIFIC.  *)
(***************************************************************************)
SetGranularity(i, g) ==
    /\ Editing
    /\ i \in 1..Len(values.instances)
    /\ SetFieldValue(i, "contextGranularity", g)

\* A check box of the list: the option is added to the selection or taken out.
ToggleContext(i, option) ==
    /\ Editing
    /\ i \in 1..Len(values.instances)
    /\ values.instances[i].contextGranularity = contextGranularityEnum.SPECIFIC
    /\ LET context == values.instances[i].context
       IN  SetFieldValue(i, "context",
                         IF \E k \in 1..Len(context) : context[k] = option
                         THEN SelectSeq(context, LAMBDA o : o # option)
                         ELSE Append(context, option))

ToggledOptions == {"web", "device"}

ContextInstances ==
    {<<[name |-> DefaultName, propertyId |-> "PR1"]>>,
     <<[name |-> DefaultName, propertyId |-> "PR1", context |-> <<"web">>]>>}

InitContext == InitWith(InitInfos(ContextInstances))

NextContext ==
    \/ GetInitialValues
    \/ Validate
    \/ \E g \in {contextGranularityEnum.ALL, contextGranularityEnum.SPECIFIC} :
            SetGranularity(1, g)
    \/ \E option \in ToggledOptions : ToggleContext(1, option)
    \/ GetSettings
    \/ Reload

SpecContext == InitContext /\ [][NextContext]_vars

\* C17: contextGranularity survives the persist round trip although it is never
\* stored.  The trimmed instance holds context, the working one, exactly when
\* the working granularity is SPECIFIC, and never holds contextGranularity;
\* getInitialValues on the trimmed instance gives the working granularity back,
\* also when the context is the empty selection: a session opened on saved
\* settings starts with SPECIFIC for the instances saved with a context and
\* with ALL for the others.
C17_GranularityRoundTrip ==
    /\ pc = "saved" =>
        \A i \in 1..Len(values.instances) :
            LET working == values.instances[i]
                trimmed == saved.instances[i]
            IN  /\ "contextGranularity" \notin DOMAIN trimmed
                /\ "context" \in DOMAIN trimmed <=>
                        working.contextGranularity = contextGranularityEnum.SPECIFIC
                /\ "context" \in DOMAIN trimmed => trimmed.context = working.context
                /\ HydrateInstance(trimmed, Defaults).contextGranularity =
                        working.contextGranularity
    /\ (pc = "editing" /\ session >= 2) =>
        /\ Len(values.instances) = Len(prevSaved.instances)
        /\ \A i \in 1..Len(values.instances) :
                values.instances[i].contextGranularity =
                    IF "context" \in DOMAIN prevSaved.instances[i]
                    THEN contextGranularityEnum.SPECIFIC
                    ELSE contextGranularityEnum.ALL

C17_Witness ==
    /\ pc = "editing"
    /\ session = 2
    /\ "context" \in DOMAIN prevSaved.instances[1]
    /\ prevSaved.instances[1].context = <<>>
    /\ values.instances[1].context = <<>>
    /\ values.instances[1].contextGranularity = contextGranularityEnum.SPECIFIC

====
